---- MODULE Spec2Model ----
(***************************************************************************)
(* Model of src/app.py: the Flask routes /, /start, /message and /evaluate *)
(* of the therapy role-play backend, the LLM invoker call_ollama, and the  *)
(* client that holds the conversation history between requests.           *)
(*                                                                         *)
(* A text is a sequence of tokens (words, blanks, newlines); a polarity is *)
(* an integer number of twentieths, so 0.3 is 6 and the range [-1, 1] is   *)
(* -20 .. 20.  A Python value is a record [t, v]: None, a str, an int, a   *)
(* list or a dict.                                                         *)
(***************************************************************************)
EXTENDS Integers, Sequences, FiniteSets, TLC

VARIABLES
    history,    \* the transcript the client holds and echoes back
    started,    \* the client has a session: a /start call succeeded
    nOk,        \* /message calls of the session answered 200
    nFail,      \* /message calls of the session answered 500 whose history the client kept
    req,        \* the request handled last
    resp,       \* the response to it
    calls,      \* the model-runner invocations made while handling it, in order
    sentiment   \* the sentiment analyses made while handling it, in order

vars == <<history, started, nOk, nFail, req, resp, calls, sentiment>>

---------------------------------------------------------------------------
(* Bounds *)

\* /message calls of one session that change the client's history
MaxTurns == 2

---------------------------------------------------------------------------
(* Python values *)

None == [t |-> "none", v |-> <<>>]
Str(s) == [t |-> "str", v |-> s]
Number(digits) == [t |-> "int", v |-> digits]
List(es) == [t |-> "list", v |-> es]

\* bool(x): None, "" and [] are falsy
Truthy(x) == x.t # "none" /\ x.v # <<>>

\* str(x) as an f-string renders it
PyStr(x) == IF x.t = "none" THEN <<"None">> ELSE x.v

\* dict.get(key, default) on a JSON object
Get(d, k, default) == IF k \in DOMAIN d THEN d[k] ELSE default

Without(d, k) == [f \in DOMAIN d \ {k} |-> d[f]]

Whitespace == {" ", "\n"}

RECURSIVE LStrip(_)
LStrip(s) == IF s # <<>> /\ Head(s) \in Whitespace THEN LStrip(Tail(s)) ELSE s

RECURSIVE RStrip(_)
RStrip(s) ==
    IF s # <<>> /\ s[Len(s)] \in Whitespace THEN RStrip(SubSeq(s, 1, Len(s) - 1)) ELSE s

\* str.strip()
Strip(s) == RStrip(LStrip(s))

LowerTable == [Grief |-> "grief", Shy |-> "shy"]

LowerToken(c) == IF c \in DOMAIN LowerTable THEN LowerTable[c] ELSE c

\* str.lower()
Lower(s) == [i \in 1..Len(s) |-> LowerToken(s[i])]

---------------------------------------------------------------------------
(* The LLM invoker *)

\* What the model runner does with one invocation, as call_ollama tells the
\* cases apart: it exits 0 having written stdout, exits non-zero, or is still
\* running after 30 seconds.
RunnerOutcomes ==
    { [kind |-> "ok", stdout |-> <<" ", "glad", " ", "now", "\n">>],
      [kind |-> "nonzero", stdout |-> <<>>],
      [kind |-> "timeout", stdout |-> <<>>] }

LLMErrorPrefix == "LLM error: "
CalledProcessErrorText == "Command returned non-zero exit status 1."
TimeoutText == "LLM request timed out."

\* call_ollama with the timeout handler missing
call_ollama_unhandled_timeout(o) ==
    CASE o.kind = "ok" -> [raised |-> FALSE, value |-> Strip(o.stdout)]
      [] o.kind = "nonzero" ->
            [raised |-> FALSE, value |-> <<LLMErrorPrefix, CalledProcessErrorText>>]
      [] o.kind = "timeout" -> [raised |-> TRUE, value |-> <<"TimeoutExpired">>]

\* call_ollama with the non-zero exit handler missing
call_ollama_unhandled_exit(o) ==
    CASE o.kind = "ok" -> [raised |-> FALSE, value |-> Strip(o.stdout)]
      [] o.kind = "nonzero" -> [raised |-> TRUE, value |-> <<CalledProcessErrorText>>]
      [] o.kind = "timeout" -> [raised |-> FALSE, value |-> <<TimeoutText>>]

\* call_ollama(prompt): what the caller gets for runner outcome o
call_ollama(o) ==
    CASE o.kind = "ok" -> [raised |-> FALSE, value |-> Strip(o.stdout)]
      [] o.kind = "nonzero" ->
            [raised |-> FALSE, value |-> <<LLMErrorPrefix, CalledProcessErrorText>>]
      [] o.kind = "timeout" -> [raised |-> FALSE, value |-> <<TimeoutText>>]

\* call_ollama running the model once more after a timeout
AttemptsRetry(o) == IF o.kind = "timeout" THEN 2 ELSE 1

\* subprocess.run is entered once per call_ollama, with no loop around it
Attempts(o) == 1

\* the log of one call_ollama: one record per run of the model runner
Invocations(purpose, prompt, o) ==
    [i \in 1..Attempts(o) |->
        [purpose |-> purpose, prompt |-> prompt, outcome |-> o.kind, stdout |-> o.stdout]]

---------------------------------------------------------------------------
(* Sentiment classification *)

\* TextBlob(text).sentiment.polarity lies in [-1.0, 1.0]; in twentieths
PolarityGrid == (-20)..20

\* 0.3 in twentieths
Threshold == 6

\* the patient's mood from the reply's polarity
Mood(mood_score) ==
    IF mood_score > Threshold THEN "Positive"
    ELSE IF mood_score < -Threshold THEN "Negative"
    ELSE "Neutral"

\* the evaluation colour with the lower comparison made inclusive
ColorInclusive(polarity) ==
    IF polarity > Threshold THEN "GREEN"
    ELSE IF polarity >= -Threshold THEN "YELLOW"
    ELSE "RED"

\* the evaluation colour from the critique's polarity
Color(polarity) ==
    IF polarity > Threshold THEN "GREEN"
    ELSE IF polarity > -Threshold THEN "YELLOW"
    ELSE "RED"

---------------------------------------------------------------------------
(* Conversation entries and their serialisation *)

YouEntry(user_message) == [speaker |-> "You", text |-> user_message]

SeedEntry(patient_response) == [speaker |-> "Patient", text |-> Str(patient_response)]

PatientEntry(patient_response, mood_score) ==
    [speaker |-> "Patient", text |-> Str(patient_response),
     mood |-> Mood(mood_score), mood_score |-> mood_score]

\* entry['speaker'] and entry['text'] raise KeyError on an entry without them
WellFormed(entry) == {"speaker", "text"} \subseteq DOMAIN entry

\* the first key the serialisation fails to find
MissingKey(h) ==
    LET i == CHOOSE j \in 1..Len(h) : ~WellFormed(h[j]) /\ \A k \in 1..(j - 1) : WellFormed(h[k])
    IN IF "speaker" \in DOMAIN h[i] THEN "'text'" ELSE "'speaker'"

\* f"{entry['speaker']}: {entry['text']}"
Render(entry) == <<entry.speaker, ": ">> \o PyStr(entry.text)

\* the serialisation leaving out the last entry
RECURSIVE JoinDropLast(_)
JoinDropLast(h) ==
    IF Len(h) <= 1 THEN <<>>
    ELSE IF Len(h) = 2 THEN Render(h[1])
    ELSE Render(h[1]) \o <<"\n">> \o JoinDropLast(Tail(h))

\* "\n".join(f"{entry['speaker']}: {entry['text']}" for entry in conversation_history)
RECURSIVE Join(_)
Join(h) ==
    IF h = <<>> THEN <<>>
    ELSE IF Len(h) = 1 THEN Render(h[1])
    ELSE Render(h[1]) \o <<"\n">> \o Join(Tail(h))

---------------------------------------------------------------------------
(* Responses *)

\* jsonify(body), status
Json(status, body) == [status |-> status, body |-> body]

\* an exception no handler catches: the framework answers 500 with its own page
InternalServerError(log, analyses) ==
    [resp |-> Json(500, [html |-> Str(<<"Internal Server Error">>)]),
     calls |-> log, sentiment |-> analyses]

\* str(AttributeError) for a missing attribute of a value of the given type
AttributeErrorText(type, attr) ==
    <<"'", type, "' object has no attribute '", attr, "'">>

TypeName(x) ==
    CASE x.t = "none" -> "NoneType"
      [] x.t = "str" -> "str"
      [] x.t = "int" -> "int"
      [] x.t = "list" -> "list"
      [] x.t = "dict" -> "dict"

---------------------------------------------------------------------------
(* /start *)

\* the initial-patient prompt
InitialPrompt(situation, personality, style, role) ==
    <<"You are a patient experiencing ">> \o Lower(situation.v)
      \o <<". Your personality is ">> \o Lower(personality.v)
      \o <<". You are engaging in a ">> \o PyStr(style)
      \o <<" conversation with a ">> \o PyStr(role)
      \o <<". Please respond as the patient, conveying your feelings and thoughts authentically. Only output the response, nothing else.">>
      \o <<"while maintaining a ">> \o Lower(personality.v)
      \o <<" personality style.  Remember your role as the patient and focus on your immediate emotional response.">>

\* start_session accepting a request as soon as one parameter is given
AnyParameter(situation, personality, style, role) ==
    Truthy(situation) \/ Truthy(personality) \/ Truthy(style) \/ Truthy(role)

\* all([situation, personality, style, role])
AllParameters(situation, personality, style, role) ==
    Truthy(situation) /\ Truthy(personality) /\ Truthy(style) /\ Truthy(role)

\* start_session(): data is request.get_json(), o the runner's outcome
start_session(data, o) ==
    IF data.t # "dict" THEN InternalServerError(<<>>, <<>>)
    ELSE
    LET situation == Get(data.v, "situation", None)
        personality == Get(data.v, "personality", None)
        style == Get(data.v, "style", None)
        role == Get(data.v, "role", None)
    IN
    IF ~AllParameters(situation, personality, style, role)
    THEN [resp |-> Json(400, [error |-> Str(<<"Missing parameters">>)]),
          calls |-> <<>>, sentiment |-> <<>>]
    ELSE IF situation.t # "str" \/ personality.t # "str"
    THEN InternalServerError(<<>>, <<>>)
    ELSE
    LET initial_prompt == InitialPrompt(situation, personality, style, role)
        log == Invocations("initial", initial_prompt, o)
        patient_response == call_ollama(o)
    IN
    IF patient_response.raised THEN InternalServerError(log, <<>>)
    ELSE [resp |-> Json(200, [response |-> Str(patient_response.value),
                              conversation_history |-> List(<<SeedEntry(patient_response.value)>>),
                              situation |-> situation,
                              personality |-> personality,
                              style |-> style,
                              role |-> role]),
          calls |-> log, sentiment |-> <<>>]

---------------------------------------------------------------------------
(* /evaluate *)

\* the session-evaluation prompt
SessionPrompt(conversation_text) ==
    <<"Review the following therapy session conversation:\n">> \o conversation_text
      \o <<"\n", "Provide a constructive evaluation and feedback of the session, noting strengths and areas for improvement.  Be specific and concise.">>

\* evaluate() rejecting only a missing history
NoHistoryNoneOnly(conversation_history) == conversation_history.t = "none"

\* not conversation_history
NoHistory(conversation_history) == ~Truthy(conversation_history)

\* evaluate(): data is request.get_json(), o the runner's outcome
evaluate(data, o) ==
    IF data.t # "dict" THEN InternalServerError(<<>>, <<>>)
    ELSE
    LET conversation_history == Get(data.v, "conversation_history", List(<<>>))
    IN
    IF NoHistory(conversation_history)
    THEN [resp |-> Json(400, [error |-> Str(<<"No conversation history provided">>)]),
          calls |-> <<>>, sentiment |-> <<>>]
    ELSE IF conversation_history.t # "list"
            \/ \E i \in 1..Len(conversation_history.v) : ~WellFormed(conversation_history.v[i])
    THEN InternalServerError(<<>>, <<>>)
    ELSE
    LET eval_prompt == SessionPrompt(Join(conversation_history.v))
        log == Invocations("session", eval_prompt, o)
        evaluation == call_ollama(o)
    IN
    IF evaluation.raised THEN InternalServerError(log, <<>>)
    ELSE [resp |-> Json(200, [evaluation |-> Str(evaluation.value)]),
          calls |-> log, sentiment |-> <<>>]

---------------------------------------------------------------------------
(* /message *)

\* the turn prompt
TurnPrompt(role, situation, personality, style, conversation_context) ==
    <<"The following is a conversation between a ">> \o PyStr(role)
      \o <<" and a patient. As the patient, experiencing ">> \o Lower(situation.v)
      \o <<", with a ">> \o Lower(personality.v)
      \o <<" personality, and communicating in a ">> \o PyStr(style)
      \o <<" manner, respond only with your next statement and nothing else:\n\n">>
      \o conversation_context

\* the critique prompt
CritiquePrompt(role, user_message) ==
    <<"Evaluate the therapeutic quality of this ">> \o PyStr(role)
      \o <<"'s response: '">> \o PyStr(user_message)
      \o <<"'.\n", "Provide a brief, less than 20 word evaluation focusing on its helpfulness and appropriateness. Suggest a better response.">>

\* the except branch of message(): e is str(e); bound tells whether the local
\* conversation_history had been assigned when the exception was raised
Except(e, bound, conversation_history, log, analyses) ==
    IF ~bound THEN InternalServerError(log, analyses)
    ELSE [resp |-> Json(500, [error |-> Str(e),
                              conversation_history |-> conversation_history,
                              evaluation |-> [color |-> "RED",
                                              text |-> Str(<<"Error: ">> \o e)]]),
          calls |-> log, sentiment |-> analyses]

\* message() putting the user entry in front of the history
AddUserFirst(conversation_history, user_message) ==
    <<YouEntry(user_message)>> \o conversation_history

\* conversation_history.append({"speaker": "You", "text": user_message})
AddUser(conversation_history, user_message) ==
    Append(conversation_history, YouEntry(user_message))

\* call_ollama(eval_prompt).strip()
EvalText(returned) == Strip(returned)

\* message(): data is request.get_json(); o1, o2 are the runner's outcomes for
\* the patient reply and the critique; s1, s2 the polarities TextBlob finds
message(data, o1, s1, o2, s2) ==
    IF data.t # "dict"
    THEN Except(AttributeErrorText(TypeName(data), "get"), FALSE, None, <<>>, <<>>)
    ELSE
    LET conversation_history == Get(data.v, "conversation_history", List(<<>>))
        user_message == Get(data.v, "message", None)
        situation == Get(data.v, "situation", None)
        personality == Get(data.v, "personality", None)
        style == Get(data.v, "style", None)
        role == Get(data.v, "role", None)
    IN
    IF conversation_history.t # "list"
    THEN Except(AttributeErrorText(TypeName(conversation_history), "append"),
                TRUE, conversation_history, <<>>, <<>>)
    ELSE
    LET h1 == AddUser(conversation_history.v, user_message)
    IN
    IF \E i \in 1..Len(h1) : ~WellFormed(h1[i])
    THEN Except(<<MissingKey(h1)>>, TRUE, List(h1), <<>>, <<>>)
    ELSE IF situation.t # "str"
    THEN Except(AttributeErrorText(TypeName(situation), "lower"), TRUE, List(h1), <<>>, <<>>)
    ELSE IF personality.t # "str"
    THEN Except(AttributeErrorText(TypeName(personality), "lower"), TRUE, List(h1), <<>>, <<>>)
    ELSE
    LET conversation_context == Join(h1)
        prompt == TurnPrompt(role, situation, personality, style, conversation_context)
        log1 == Invocations("turn", prompt, o1)
        patient_response == call_ollama(o1)
    IN
    IF patient_response.raised
    THEN Except(patient_response.value, TRUE, List(h1), log1, <<>>)
    ELSE
    LET analyses1 == <<[text |-> patient_response.value, polarity |-> s1]>>
        h2 == Append(h1, PatientEntry(patient_response.value, s1))
        eval_prompt == CritiquePrompt(role, user_message)
        log2 == log1 \o Invocations("critique", eval_prompt, o2)
        returned == call_ollama(o2)
    IN
    IF returned.raised
    THEN Except(returned.value, TRUE, List(h2), log2, analyses1)
    ELSE
    LET eval_text == EvalText(returned.value)
        analyses2 == Append(analyses1, [text |-> eval_text, polarity |-> s2])
    IN [resp |-> Json(200, [conversation_history |-> List(h2),
                            response |-> Str(patient_response.value),
                            evaluation |-> [color |-> Color(s2), text |-> Str(eval_text)]]),
        calls |-> log2, sentiment |-> analyses2]

\* home()
home == [resp |-> Json(200, [text |-> Str(<<"Welcome! The server is running on port 8000.">>)]),
         calls |-> <<>>, sentiment |-> <<>>]

---------------------------------------------------------------------------
(* The client and its requests *)

Dict(fields) == [t |-> "dict", v |-> fields]

\* the session parameters the client sends
Parameters ==
    [situation |-> Str(<<"Grief">>), personality |-> Str(<<"Shy">>),
     style |-> Str(<<"formal">>), role |-> Str(<<"therapist">>)]

\* /start bodies: complete, one field absent, one field empty, no field, a
\* number for the situation, not an object
StartBodies ==
    {Dict(Parameters), Dict(<<>>), None, Dict([Parameters EXCEPT !.situation = Number(<<"5">>)])}
      \cup {Dict(Without(Parameters, k)) : k \in DOMAIN Parameters}
      \cup {Dict([Parameters EXCEPT ![k] = Str(<<>>)]) : k \in DOMAIN Parameters}

\* a complete /message body echoing the transcript h
FullMessage(h) ==
    [conversation_history |-> List(h), message |-> Str(<<"hello">>),
     situation |-> Parameters.situation, personality |-> Parameters.personality,
     style |-> Parameters.style, role |-> Parameters.role]

\* an entry without its text
MalformedEntry == [speaker |-> "Patient"]

\* /message bodies: complete, one field absent, a null history, a history with
\* a malformed entry, a number for the situation, not an object
MessageBodies(h) ==
    {Dict(FullMessage(h)), None, Dict([FullMessage(h) EXCEPT !.situation = Number(<<"5">>)])}
      \cup {Dict(Without(FullMessage(h), k)) : k \in DOMAIN FullMessage(h)}
      \cup {Dict([FullMessage(h) EXCEPT !.conversation_history = None]),
            Dict([FullMessage(h) EXCEPT !.conversation_history = List(Append(h, MalformedEntry))])}

\* /evaluate bodies: the transcript, no field, an empty array, null, a history
\* with a malformed entry, not an object
EvaluateBodies(h) ==
    {Dict([conversation_history |-> List(h)]), Dict(<<>>), None,
     Dict([conversation_history |-> List(<<>>)]),
     Dict([conversation_history |-> None]),
     Dict([conversation_history |-> List(Append(h, MalformedEntry))])}

\* the polarities drawn for the patient's reply in a session: one per mood
ReplyPolarities == {-Threshold - 1, -Threshold, Threshold + 1}

\* the polarities drawn for the critique in a session: one per colour
CritiquePolarities == {-Threshold, Threshold, Threshold + 1}

NoRequest == [route |-> "none", data |-> None]
NoResponse == Json(0, [text |-> Str(<<>>)])

\* the client awaits no response
Idle == req.route = "none"

\* the request echoes the transcript the client holds
Echoes(data) ==
    /\ data.t = "dict"
    /\ "conversation_history" \in DOMAIN data.v
    /\ data.v.conversation_history = List(history)

\* the response carries a history
Carries(r) ==
    /\ "conversation_history" \in DOMAIN r.body
    /\ r.body.conversation_history.t = "list"

Init ==
    /\ history = <<>>
    /\ started = FALSE
    /\ nOk = 0
    /\ nFail = 0
    /\ req = NoRequest
    /\ resp = NoResponse
    /\ calls = <<>>
    /\ sentiment = <<>>

\* the server handles one request: r is what the handler did
Served(route, data, r) ==
    /\ req' = [route |-> route, data |-> data]
    /\ resp' = r.resp
    /\ calls' = r.calls
    /\ sentiment' = r.sentiment
    /\ UNCHANGED <<history, started, nOk, nFail>>

\* GET /
Home ==
    /\ Idle
    /\ Served("home", None, home)

\* POST /start
StartSession ==
    /\ Idle
    /\ \E data \in StartBodies, o \in RunnerOutcomes :
        \E r \in {start_session(data, o)} : Served("start", data, r)

\* POST /message
Message ==
    /\ Idle
    /\ nOk + nFail < MaxTurns
    /\ \E data \in MessageBodies(history), o1 \in RunnerOutcomes, o2 \in RunnerOutcomes,
          s1 \in ReplyPolarities, s2 \in CritiquePolarities :
        \E r \in {message(data, o1, s1, o2, s2)} : Served("message", data, r)

\* POST /evaluate
Evaluate ==
    /\ Idle
    /\ \E data \in EvaluateBodies(history), o \in RunnerOutcomes :
        \E r \in {evaluate(data, o)} : Served("evaluate", data, r)

Forget ==
    /\ req' = NoRequest
    /\ resp' = NoResponse
    /\ calls' = <<>>
    /\ sentiment' = <<>>

\* the client takes the response: a 200 answer to /start opens a session with
\* the seed history; the history of an answer to a /message request that echoed
\* the client's transcript replaces that transcript
Receive ==
    /\ ~Idle
    /\ Forget
    /\ IF req.route = "start" /\ resp.status = 200
       THEN /\ history' = resp.body.conversation_history.v
            /\ started' = TRUE
            /\ nOk' = 0
            /\ nFail' = 0
       ELSE IF req.route = "message" /\ started /\ Echoes(req.data) /\ Carries(resp)
       THEN /\ history' = resp.body.conversation_history.v
            /\ nOk' = IF resp.status = 200 THEN nOk + 1 ELSE nOk
            /\ nFail' = IF resp.status = 200 THEN nFail ELSE nFail + 1
            /\ UNCHANGED started
       ELSE UNCHANGED <<history, started, nOk, nFail>>

\* the client drops an error response and keeps the transcript it had
Discard ==
    /\ ~Idle
    /\ resp.status # 200
    /\ Forget
    /\ UNCHANGED <<history, started, nOk, nFail>>

Next == Home \/ StartSession \/ Message \/ Evaluate \/ Receive \/ Discard

Spec == Init /\ [][Next]_vars

---------------------------------------------------------------------------
(* The classification alone: a complete /message request, the runner       *)
(* succeeding, the two polarities ranging over the whole grid              *)

Classify ==
    /\ Idle
    /\ \E s1 \in PolarityGrid, s2 \in PolarityGrid, o \in {x \in RunnerOutcomes : x.kind = "ok"} :
        \E r \in {message(Dict(FullMessage(<<>>)), o, s1, o, s2)} :
            Served("message", Dict(FullMessage(<<>>)), r)

NextClassify == Classify

SpecClassify == Init /\ [][NextClassify]_vars

---------------------------------------------------------------------------
(* Properties *)

ErrorKeys == {"error", "conversation_history", "evaluation"}

RequiredMessageFields ==
    {"conversation_history", "message", "situation", "personality", "style", "role"}

\* the history a /message or /evaluate request gives: an absent field is []
Given(data) == Get(data.v, "conversation_history", List(<<>>))

\* C1: every /message request that is not answered 200 is answered 500 with a
\* body carrying an error text, the conversation history and an evaluation
\* whose colour is RED and whose text is "Error: " followed by the error text.
C1_ErrorBodyComplete ==
    (req.route = "message" /\ resp.status # 200) =>
        /\ resp.status = 500
        /\ ErrorKeys \subseteq DOMAIN resp.body
        /\ resp.body.error.t = "str"
        /\ resp.body.evaluation.color = "RED"
        /\ resp.body.evaluation.text = Str(<<"Error: ">> \o resp.body.error.v)

\* what a successful /message returns: the given history, then the You entry
\* holding the message, then the Patient reply
ExtendsByTurn(given, user_message, body) ==
    LET h == body.conversation_history.v IN
    /\ Len(h) = Len(given) + 2
    /\ SubSeq(h, 1, Len(given)) = given
    /\ h[Len(given) + 1].speaker = "You"
    /\ h[Len(given) + 1].text = user_message
    /\ h[Len(given) + 2].speaker = "Patient"
    /\ h[Len(given) + 2].text = body.response

\* C2 as stated: /start returns a history of exactly one Patient entry, each
\* successful /message returns the history it was given followed by the You
\* entry and then the Patient reply, and after N successful /message calls
\* the history the client holds has 1 + 2N entries.
C2_LengthOnePlusTwoN ==
    /\ (req.route = "start" /\ resp.status = 200) =>
          /\ Len(resp.body.conversation_history.v) = 1
          /\ resp.body.conversation_history.v[1].speaker = "Patient"
    /\ (req.route = "message" /\ resp.status = 200) =>
          ExtendsByTurn(Given(req.data).v, Get(req.data.v, "message", None), resp.body)
    /\ (started /\ Idle) => Len(history) = 1 + 2 * nOk

\* C2 amended: /start returns a history of exactly one Patient entry; a
\* successful /message returns the history it was given, unchanged and in
\* order, followed by the You entry and then the Patient reply; a failed
\* /message that returns a history returns the given one followed by what was
\* appended before the failure, the You entry first; so after N successful
\* calls the history has 1 + 2N entries when the client kept no history of a
\* failed call, and at least 1 + 2N + F entries when it kept F of them.
C2_AppendOnly ==
    /\ (req.route = "start" /\ resp.status = 200) =>
          /\ Len(resp.body.conversation_history.v) = 1
          /\ resp.body.conversation_history.v[1].speaker = "Patient"
          /\ resp.body.conversation_history.v[1].text = resp.body.response
    /\ (req.route = "message" /\ resp.status = 200) =>
          ExtendsByTurn(Given(req.data).v, Get(req.data.v, "message", None), resp.body)
    /\ (req.route = "message" /\ resp.status = 500 /\ Carries(resp)) =>
          LET h == resp.body.conversation_history.v
              given == Given(req.data).v
          IN /\ Len(h) >= Len(given) + 1
             /\ SubSeq(h, 1, Len(given)) = given
             /\ h[Len(given) + 1].speaker = "You"
             /\ h[Len(given) + 1].text = Get(req.data.v, "message", None)
    /\ (started /\ Idle) =>
          /\ Len(history) >= 1 + 2 * nOk + nFail
          /\ nFail = 0 => Len(history) = 1 + 2 * nOk

\* a session with one successful turn after one failed turn whose history was kept
C2_Witness ==
    started /\ Idle /\ nOk = 1 /\ nFail = 1 /\ Len(history) = 4

\* C3: with s the polarity in twentieths (0.3 is 6): the mood is Positive iff
\* s > 0.3, Negative iff s < -0.3, Neutral iff -0.3 <= s <= 0.3; the colour is
\* GREEN iff s > 0.3, YELLOW iff -0.3 < s <= 0.3, RED iff s <= -0.3.
C3_Thresholds ==
    (req.route = "message" /\ resp.status = 200) =>
        LET h == resp.body.conversation_history.v
            reply == h[Len(h)]
            s == sentiment[1].polarity
            p == sentiment[2].polarity
            color == resp.body.evaluation.color
        IN /\ reply.mood_score = s
           /\ reply.mood = "Positive" <=> s > 6
           /\ reply.mood = "Negative" <=> s < -6
           /\ reply.mood = "Neutral" <=> (-6 <= s /\ s <= 6)
           /\ color = "GREEN" <=> p > 6
           /\ color = "YELLOW" <=> (-6 < p /\ p <= 6)
           /\ color = "RED" <=> p <= -6

\* at -0.3 exactly the mood is Neutral and the colour RED
C3_Witness ==
    /\ req.route = "message"
    /\ resp.status = 200
    /\ sentiment[1].polarity = -6
    /\ sentiment[2].polarity = -6
    /\ resp.body.conversation_history.v[2].mood = "Neutral"
    /\ resp.body.evaluation.color = "RED"

\* a field of a JSON object is absent or the empty string
AbsentOrEmpty(fields, k) == k \notin DOMAIN fields \/ fields[k] = Str(<<>>)

\* C4: a /start request (a JSON object) in which one of situation,
\* personality, style, role is absent or the empty string is answered 400
\* with an error body; a seed history is returned only when all four are
\* present and non-empty.
C4_StartValidation ==
    (req.route = "start" /\ req.data.t = "dict") =>
        LET missing == \E k \in {"situation", "personality", "style", "role"} :
                            AbsentOrEmpty(req.data.v, k)
        IN /\ missing => (resp.status = 400 /\ DOMAIN resp.body = {"error"})
           /\ "conversation_history" \in DOMAIN resp.body => ~missing

\* a /start request whose style is the empty string, answered 400
C4_Witness ==
    /\ req.route = "start"
    /\ req.data.t = "dict"
    /\ "style" \in DOMAIN req.data.v
    /\ req.data.v["style"] = Str(<<>>)
    /\ resp.status = 400

\* C5: a /message request that lacks one of its required fields is answered
\* 400 with an error body.
C5_MissingField400 ==
    (/\ req.route = "message"
     /\ req.data.t = "dict"
     /\ \E k \in RequiredMessageFields : k \notin DOMAIN req.data.v) =>
        (resp.status = 400 /\ "error" \in DOMAIN resp.body)

\* C6: a /evaluate request (a JSON object) whose conversation_history is an
\* empty array or absent is answered 400 with an error body; with a non-empty
\* history of speaker/text entries the body holds the evaluation text only.
C6_Evaluate ==
    (req.route = "evaluate" /\ req.data.t = "dict") =>
        LET given == Given(req.data) IN
        /\ given = List(<<>>) => (resp.status = 400 /\ DOMAIN resp.body = {"error"})
        /\ (/\ given.t = "list"
            /\ given.v # <<>>
            /\ \A i \in 1..Len(given.v) : {"speaker", "text"} \subseteq DOMAIN given.v[i]) =>
              /\ resp.status = 200
              /\ DOMAIN resp.body = {"evaluation"}
              /\ resp.body.evaluation.t = "str"

\* a /evaluate request with a whole turn in its history, answered 200
C6_Witness ==
    /\ req.route = "evaluate"
    /\ req.data.t = "dict"
    /\ Given(req.data).t = "list"
    /\ Len(Given(req.data).v) = 3
    /\ resp.status = 200

\* what call_ollama may return for one run of the model: the standard output
\* without its leading and trailing whitespace, a text that starts with
\* "LLM error: ", or "LLM request timed out."
Returned(value, call) ==
    CASE call.outcome = "ok" ->
            /\ \E i \in 1..(Len(call.stdout) + 1), j \in 0..Len(call.stdout) :
                  /\ value = SubSeq(call.stdout, i, j)
                  /\ \A k \in 1..(i - 1) : call.stdout[k] \in {" ", "\n"}
                  /\ \A k \in (j + 1)..Len(call.stdout) : call.stdout[k] \in {" ", "\n"}
            /\ value # <<>> => (value[1] \notin {" ", "\n"} /\ value[Len(value)] \notin {" ", "\n"})
      [] call.outcome = "nonzero" -> value # <<>> /\ value[1] = "LLM error: "
      [] call.outcome = "timeout" -> value = <<"LLM request timed out.">>

\* C7: for each of the three runner outcomes call_ollama returns a string to
\* its caller and never raises: the handler that invoked the runner goes on
\* to answer 200, and the text it got is the trimmed standard output, a text
\* starting with "LLM error: ", or exactly "LLM request timed out.".
C7_InvokerReturns ==
    (calls # <<>>) =>
        /\ resp.status = 200
        /\ req.route = "start" =>
              (resp.body.response.t = "str" /\ Returned(resp.body.response.v, calls[1]))
        /\ req.route = "evaluate" =>
              (resp.body.evaluation.t = "str" /\ Returned(resp.body.evaluation.v, calls[1]))
        /\ req.route = "message" =>
              /\ resp.body.response.t = "str"
              /\ Returned(resp.body.response.v, calls[1])
              /\ Returned(resp.body.evaluation.text.v, calls[2])

\* a /start whose runner timed out, answered with the timeout text
C7_Witness ==
    /\ req.route = "start"
    /\ calls # <<>>
    /\ calls[1].outcome = "timeout"
    /\ resp.status = 200
    /\ resp.body.response = Str(<<"LLM request timed out.">>)

\* the serialisation of a history, built from its last entry backwards
RECURSIVE Rendering(_)
Rendering(h) ==
    LET e == h[Len(h)]
        line == <<e.speaker, ": ">> \o (IF e.text.t = "none" THEN <<"None">> ELSE e.text.v)
    IN IF Len(h) = 1 THEN line
       ELSE Rendering(SubSeq(h, 1, Len(h) - 1)) \o <<"\n">> \o line

\* C8: in every /message call that reaches the turn prompt, the prompt ends
\* with the conversation context: the given entries in order and then the You
\* entry (not the patient reply), each as "{speaker}: {text}", joined by
\* single newlines.
C8_ConversationContext ==
    (req.route = "message" /\ calls # <<>>) =>
        LET entries == Append(Given(req.data).v,
                              [speaker |-> "You", text |-> Get(req.data.v, "message", None)])
            context == Rendering(entries)
            prompt == calls[1].prompt
            n == Len(prompt) - Len(context)
        IN /\ calls[1].purpose = "turn"
           /\ n >= 1
           /\ SubSeq(prompt, n + 1, Len(prompt)) = context
           /\ prompt[n] = " manner, respond only with your next statement and nothing else:\n\n"

\* a /message call in the second turn that reached the turn prompt
C8_Witness ==
    /\ req.route = "message"
    /\ calls # <<>>
    /\ Len(Given(req.data).v) = 3
    /\ "message" \in DOMAIN req.data.v

Moods == {"Positive", "Neutral", "Negative"}
Colors == {"GREEN", "YELLOW", "RED"}

\* an invocation of the request ended in a non-zero exit or a timeout
SomeInvocationFailed == \E i \in 1..Len(calls) : calls[i].outcome \in {"nonzero", "timeout"}

\* C9: when an LLM invocation of a /message call ends in a non-zero exit or a
\* timeout, the call still returns 200; the returned history is the given
\* history, the You entry and a Patient entry with a mood whose text is what
\* the invoker returned (its error or timeout text when the reply invocation
\* failed); the evaluation has a colour and the text the invoker returned.
C9_DegradedInBand ==
    (req.route = "message" /\ SomeInvocationFailed) =>
        /\ resp.status = 200
        /\ Len(calls) = 2
        /\ ExtendsByTurn(Given(req.data).v, Get(req.data.v, "message", None), resp.body)
        /\ LET h == resp.body.conversation_history.v
               reply == h[Len(h)]
           IN /\ "mood" \in DOMAIN reply
              /\ reply.mood \in Moods
              /\ calls[1].outcome = "nonzero" =>
                    (Len(reply.text.v) > 1 /\ reply.text.v[1] = "LLM error: ")
              /\ calls[1].outcome = "timeout" => reply.text.v = <<"LLM request timed out.">>
        /\ resp.body.evaluation.color \in Colors
        /\ calls[2].outcome = "nonzero" =>
              (Len(resp.body.evaluation.text.v) > 1
                 /\ resp.body.evaluation.text.v[1] = "LLM error: ")
        /\ calls[2].outcome = "timeout" =>
              resp.body.evaluation.text.v = <<"LLM request timed out.">>

\* a /message call whose reply invocation timed out and whose critique
\* invocation exited non-zero, answered 200
C9_Witness ==
    /\ req.route = "message"
    /\ Len(calls) = 2
    /\ calls[1].outcome = "timeout"
    /\ calls[2].outcome = "nonzero"
    /\ resp.status = 200

\* C10: a request answered 400 invokes the runner zero times, a successful
\* /start once, a successful /evaluate once, a successful /message twice, the
\* patient reply first and the critique second; no invocation is re-issued.
C10_InvocationCount ==
    /\ resp.status = 400 => calls = <<>>
    /\ (req.route = "start" /\ resp.status = 200) =>
          (Len(calls) = 1 /\ calls[1].purpose = "initial")
    /\ (req.route = "evaluate" /\ resp.status = 200) =>
          (Len(calls) = 1 /\ calls[1].purpose = "session")
    /\ (req.route = "message" /\ resp.status = 200) =>
          (Len(calls) = 2 /\ calls[1].purpose = "turn" /\ calls[2].purpose = "critique")
    /\ \A i \in 1..Len(calls), j \in 1..Len(calls) :
          (i # j) => calls[i].purpose # calls[j].purpose

\* a successful /message whose reply invocation timed out: two invocations
C10_Witness ==
    /\ req.route = "message"
    /\ resp.status = 200
    /\ calls # <<>>
    /\ calls[1].outcome = "timeout"
    /\ Len(calls) = 2
    /\ calls[2].purpose = "critique"

====
